---- MODULE Spec2Model ----
(***************************************************************************)
(* Unit of Work, repository, soft-delete repository and create-user        *)
(* handler of the ecommerce "users" backend.                               *)
(*                                                                         *)
(* Spec        one Unit-of-Work scope (DatabaseManager) over one SQLAlchemy *)
(*             session, with the base and the soft-delete repository bound *)
(*             to that session.                                            *)
(* SpecCreate  concurrent create-user requests the role gate has admitted,  *)
(*             each with a session of its own, over one users table and    *)
(*             one Service Bus topic.                                      *)
(* SpecGate    the same requests from their arrival: the session           *)
(*             dependency, get_current_user, require_role, then the        *)
(*             handler of SpecCreate and the response.                     *)
(* SpecEngine  threads of one process calling _get_engine.                 *)
(***************************************************************************)
EXTENDS Integers, Sequences, FiniteSets, TLC

\* ------------------------------------------------------------------ bounds
MaxRows == 2
MaxOps == 3
MaxTime == 1
MaxConds == 1
NumRequests == 2
NumThreads == 2
MaxCalls == 2
MaxPwLen == 2
MaxMessages == 4

\* ------------------------------------------------------- values and inputs
NoKey == 0
NullTime == 0
NullActor == "NULL"
DefaultActor == "Mr Unknown"

Requests == 1..NumRequests
Threads == 1..NumThreads

\* _ENGINE = None
NoEngine == 0
Emails == {"e1", "e2"}
TopicNames == {"", "user-created"}

Names == {"a", "b"}
Actors == {"ann"}
Times == 1..MaxTime
Keys == 1..MaxRows

\* deleted_by argument of SoftBaseRepository.delete: None, "" or an actor
DeletedByArgs == {NullActor, ""} \cup Actors

\* Python exceptions, by the class the except clauses and handlers tell apart
ExceptionKinds == {"Exception", "SQLAlchemyError"}
RollbackOutcomes == {"ok", "SQLAlchemyError", "Exception"}

\* an exception object: where it was raised and its class
Exc(origin, kind) == [origin |-> origin, kind |-> kind]
NoExc == Exc("none", "none")

NoEntity == [id |-> NoKey, name |-> "", deleted_at |-> NullTime, deleted_by |-> NullActor]

\* a row of a table that carries DeletedMixin
Entity(k, n, at, by) == [id |-> k, name |-> n, deleted_at |-> at, deleted_by |-> by]

\* InputDTO.model_dump(): the business columns only; the key is generated
InputDTOs == [name : Names]

\* ColumnExpressionArgument[bool]: an equality filter on one column
Predicates == [col : {"name"}, sval : Names, ival : {NoKey}]
         \cup [col : {"id"}, sval : {""}, ival : Keys]

\* *args / conditions: a list of filters, AND-ed; the empty list matches all
Conditions == {c \in SUBSET Predicates : Cardinality(c) <= MaxConds}

\* input_values of update: a map from column names to new values
ValueMaps == {[name |-> n] : n \in Names}
        \cup {[deleted_by |-> a] : a \in Actors}
        \cup {[deleted_at |-> t] : t \in Times}

\* the role claim of a token and the role a gated route requires
Roles == {"ADMIN", "CUSTOMER"}

\* @require_role(UserRole.ADMIN) on create_user
RequiredRole == "ADMIN"

\* what arrives in the Authorization header: nothing, a bearer string that
\* jwt.decode rejects, or a signed, unexpired token with its claims ("" for a
\* claim the payload lacks): a subject and a role, a subject only, a role only
Tokens == [kind : {"missing", "garbled"}, sub : {""}, role : {""}]
     \cup [kind : {"ok"}, sub : Emails, role : Roles]
     \cup [kind : {"ok"}, sub : {"e1"}, role : {""}]
     \cup [kind : {"ok"}, sub : {""}, role : {RequiredRole}]
NoToken == [kind |-> "none", sub |-> "", role |-> ""]

\* the dict get_current_user returns
Ident(user_name, role) == [user_name |-> user_name, role |-> role]
NoIdent == Ident("", "")

\* the methods of a repository
RepoOps == {"get", "list", "get_one", "add", "delete", "update",
            "get_authenticated_user", "soft_get", "soft_list", "soft_delete"}

\* the arguments of SoftBaseRepository.delete, with the clock's reading
Args(conds, by, now) == [conds |-> conds, by |-> by, now |-> now]
NoArgs == Args({}, NullActor, NullTime)

\* no input_values: the operation was not an update
NoValues == <<>>

VARIABLES
    pc,          \* position of the scope: "new", "body", "returning", "raising", "done"
    bodyExc,     \* exception raised by the body of the with block, or "none"
    propagated,  \* exception that left the with statement, or "none"
    exitCalls,   \* session methods invoked by __exit__, in order
    bodyCommits, \* number of commit() calls made by the body
    errLogged,   \* logger.error of __exit__ was executed
    rbOutcome,   \* how session.rollback() ended in __exit__, "none" if not called
    new,         \* session.new: pending objects, in the order they were added
    view,        \* rows the session's open transaction sees
    db,          \* committed rows
    nextId,      \* next generated primary key
    lastOp,      \* last operation the body performed
    lastAdded,   \* entity returned by the last add
    lastFlush,   \* flush argument of the last add
    lastCount,   \* rowcount / rows returned by the last delete or update
    nOps,        \* number of operations the body performed
    repoCalls,   \* session methods invoked inside repository methods so far
    lastArgs,    \* arguments of the last soft delete or update, NoArgs after another operation
    lastValues,  \* input_values of the last update, NoValues after another operation
    lastRows,    \* rows the last update returned, {} after another operation
    rpc,         \* per request: position in create_user
    remail,      \* per request: email of the submitted CreateUser
    rtxn,        \* per request: rows inserted by its open transaction
    users,       \* committed rows of the users table
    rexc,        \* per request: exception raised in the with block
    rraised,     \* per request: exception that left create_user
    rstatus,     \* per request: HTTP status of the response, 0 while running
    commitOk,    \* per request: uow.commit() has returned
    publishCalls,\* per request: calls of post_user_created_event
    pubFailure,  \* per request: what the transport raised during the publish
    storeFault,  \* per request: the store failed during flush, commit or rollback
    topicName,   \* SB_ECOMMERCE_USER_CREATED_TOPIC, "" when not set
    topic,       \* messages sent to the topic
    rtoken,      \* per request: the bearer token it presented
    rident,      \* per request: the dict get_current_user returned
    rran,        \* per request: require_role called the handler function
    ruows,       \* per request: Unit-of-Work scopes entered on its session
    rsess,       \* per request: its session is "none", "new", "open" or "closed"
    rsessId,     \* per request: identity of its session object, 0 before it has one
    nextSession, \* number of session objects made so far, plus one
    rbody,       \* per request: shape of the response body
    pubLog,      \* per request: level of the record the publish logged, or "none"
    pubSender,   \* per request: the publish obtained a topic sender
    engine,      \* the module global _ENGINE: NoEngine, or the engine it holds
    created,     \* number of create_engine calls made in the process
    returned,    \* the engines _get_engine has returned to its callers
    tpc,         \* per thread: position in _get_engine
    tlocal,      \* per thread: the engine create_engine has just returned to it
    tcalls,      \* per thread: calls of _get_engine it has started
    traised,     \* per thread: calls of _get_engine that ended in an exception
    inAzure,     \* app_settings.IN_AZURE
    stored,      \* rows of the users table with their password column, in insertion order
    submitted,   \* the plaintext each of those rows was created with
    pwLast,      \* last access to a stored user's password: the call and its outcome
    pwBody,      \* body of the last create-user response
    subscription,\* messages waiting on the consumer's subscription, oldest first
    cpc,         \* position of consume_user_created_events: "new", "receiving", "crashed"
    cexc,        \* exception that ended consume_user_created_events
    completed,   \* ids of the messages the consumer completed
    abandoned    \* ids of the messages the consumer abandoned

uowVars == <<pc, bodyExc, propagated, exitCalls, bodyCommits, errLogged, rbOutcome>>
sessVars == <<new, view, db, nextId>>
opVars == <<lastOp, lastAdded, lastFlush, lastCount, nOps, repoCalls, lastArgs, lastValues, lastRows>>

pubVars == <<pubLog, pubSender>>
reqVars == <<rpc, remail, rtxn, rexc, rraised, rstatus, commitOk, publishCalls, pubFailure, pubVars, storeFault>>
createVars == <<reqVars, users, topicName, topic>>

gateVars == <<rtoken, rident, rran, ruows, rsess, rsessId, nextSession, rbody>>

\* what the actions of one specification leave alone
engineVars == <<engine, created, returned, tpc, tlocal, tcalls, traised, inAzure>>

passwordVars == <<stored, submitted, pwLast, pwBody>>
consumerVars == <<subscription, cpc, cexc, completed, abandoned>>

outsideUow == <<createVars, gateVars, engineVars, passwordVars, consumerVars>>
outsideCreate == <<uowVars, sessVars, opVars, engineVars, passwordVars, consumerVars>>
outsideEngine == <<uowVars, sessVars, opVars, createVars, gateVars, passwordVars, consumerVars>>
outsidePassword == <<uowVars, sessVars, opVars, createVars, gateVars, engineVars, consumerVars>>
outsideConsumer == <<uowVars, sessVars, opVars, createVars, gateVars, engineVars, passwordVars>>

vars == <<uowVars, sessVars, opVars, createVars, gateVars, engineVars, passwordVars, consumerVars>>

\* ------------------------------------------------------------ the session
\* INSERT of the pending objects, in order: each gets the next generated key
Flushed(pending, k) ==
    [i \in 1..Len(pending) |-> [pending[i] EXCEPT !.id = k + i - 1]]

Range(f) == {f[i] : i \in DOMAIN f}

\* Session.flush(): the pending objects become rows of the open transaction
Session_flush(s) ==
    [new |-> <<>>,
     view |-> s.view \cup Range(Flushed(s.new, s.nextId)),
     db |-> s.db,
     nextId |-> s.nextId + Len(s.new)]

\* Session.commit(): flushes, then makes the transaction's rows durable
Session_commit(s) ==
    LET f == Session_flush(s) IN [f EXCEPT !.db = f.view]

\* Session.rollback(): drops the pending objects and the open transaction
Session_rollback(s) ==
    [s EXCEPT !.new = <<>>, !.view = s.db]

\* a close that releases the connection but keeps the pending objects
Session_close_KeepsPending(s) ==
    [s EXCEPT !.view = s.db]

\* Session.close(): expunges everything and releases the connection, which
\* ends an open transaction without committing it
Session_close(s) ==
    [s EXCEPT !.new = <<>>, !.view = s.db]

\* Session.add(obj): obj is pending; no key is assigned before the flush
Session_add(s, obj) ==
    [s EXCEPT !.new = Append(s.new, obj)]

\* Session.get(model, pk): identity map, then SELECT by key in the open
\* transaction; autoflush is off, so pending objects are not flushed first
Session_get(s, pk) ==
    IF pk # NoKey /\ \E r \in s.view : r.id = pk
    THEN CHOOSE r \in s.view : r.id = pk
    ELSE NoEntity

Sess == [new |-> new, view |-> view, db |-> db, nextId |-> nextId]

SetSess(s) ==
    /\ new' = s.new
    /\ view' = s.view
    /\ db' = s.db
    /\ nextId' = s.nextId

\* ---------------------------------------------------------- the repository
Holds(r, p) == IF p.col = "id" THEN r.id = p.ival ELSE r.name = p.sval

\* where(*args): all filters AND-ed
Matches(r, conds) == \A p \in conds : Holds(r, p)

\* BaseRepository.get
BaseRepository_get(s, pk) == Session_get(s, pk)

\* a list that reads the committed rows only
BaseRepository_list_Committed(s, conds) == {r \in s.db : Matches(r, conds)}

\* BaseRepository.list: select(model).where(*args) ... all()
BaseRepository_list(s, conds) == {r \in s.view : Matches(r, conds)}

\* BaseRepository.get_one: ... first(); storage order is unspecified, so the
\* result is any of the matching rows. The set of possible results.
BaseRepository_get_one(s, conds) ==
    IF BaseRepository_list(s, conds) = {} THEN {NoEntity}
    ELSE BaseRepository_list(s, conds)

\* SoftBaseRepository.get: id == pk AND deleted_by IS NULL, first()
SoftBaseRepository_get(s, pk) ==
    IF \E r \in s.view : r.id = pk /\ r.deleted_by = NullActor
    THEN CHOOSE r \in s.view : r.id = pk /\ r.deleted_by = NullActor
    ELSE NoEntity

\* SoftBaseRepository.list: super().list(*args, deleted_by IS NULL)
SoftBaseRepository_list(s, conds) ==
    {r \in BaseRepository_list(s, conds) : r.deleted_by = NullActor}

\* SoftBaseRepository inherits get_one from BaseRepository
SoftBaseRepository_get_one(s, conds) == BaseRepository_get_one(s, conds)

\* model(**input_model.model_dump())
NewModel(dto) == Entity(NoKey, dto.name, NullTime, NullActor)

\* values(input_values) applied to one row
SetValues(r, v) ==
    [id |-> r.id,
     name |-> IF "name" \in DOMAIN v THEN v.name ELSE r.name,
     deleted_at |-> IF "deleted_at" \in DOMAIN v THEN v.deleted_at ELSE r.deleted_at,
     deleted_by |-> IF "deleted_by" \in DOMAIN v THEN v.deleted_by ELSE r.deleted_by]

\* UPDATE ... WHERE conds SET v, in the open transaction
UpdateRows(rows, conds, v) ==
    {IF Matches(r, conds) THEN SetValues(r, v) ELSE r : r \in rows}

\* `if not deleted_by: deleted_by = "Mr Unknown"`
DeletedBy(arg) == IF arg = NullActor \/ arg = "" THEN DefaultActor ELSE arg

\* an add that commits what it flushes
BaseRepository_add_Commits(s, dto, flush) ==
    IF flush THEN Session_commit(Session_add(s, NewModel(dto)))
    ELSE Session_add(s, NewModel(dto))

\* an add that ignores its flush argument
BaseRepository_add_NoFlush(s, dto, flush) ==
    Session_add(s, NewModel(dto))

\* BaseRepository.add: the session after the call
BaseRepository_add(s, dto, flush) ==
    IF flush THEN Session_flush(Session_add(s, NewModel(dto)))
    ELSE Session_add(s, NewModel(dto))

\* BaseRepository.add: the `_model` object it returns, as it is on return:
\* still pending and without a key, or a row of the open transaction
AddResult(s, dto, flush) ==
    LET s1 == BaseRepository_add(s, dto, flush)
    IN IF s1.new # <<>> THEN s1.new[Len(s1.new)]
       ELSE CHOOSE r \in s1.view : r.id = s1.nextId - 1

\* BaseRepository.delete: DELETE ... WHERE *args
BaseRepository_delete(s, conds) ==
    [s EXCEPT !.view = {r \in s.view : ~Matches(r, conds)}]

\* an update that ignores its conditions
BaseRepository_update_AllRows(s, conds, v) ==
    [s EXCEPT !.view = UpdateRows(s.view, {}, v)]

\* BaseRepository.update: UPDATE ... WHERE *conditions SET input_values
BaseRepository_update(s, conds, v) ==
    [s EXCEPT !.view = UpdateRows(s.view, conds, v)]

\* BaseRepository.update: the rows of .returning(self.model)
UpdateResult(s, conds, v) == {SetValues(r, v) : r \in BaseRepository_list(s, conds)}

\* a soft delete that leaves rows alone that are marked already
SoftBaseRepository_delete_LiveOnly(s, conds, deleted_by, now) ==
    [s EXCEPT !.view = {r \in s.view : r.deleted_by # NullActor}
                       \cup UpdateRows({r \in s.view : r.deleted_by = NullActor}, conds,
                               [deleted_by |-> DeletedBy(deleted_by), deleted_at |-> now])]

\* SoftBaseRepository.delete: UPDATE ... WHERE *args SET deleted_by, deleted_at
SoftBaseRepository_delete(s, conds, deleted_by, now) ==
    [s EXCEPT !.view = UpdateRows(s.view, conds,
                           [deleted_by |-> DeletedBy(deleted_by), deleted_at |-> now])]

\* res.rowcount / len(res): the rows the statement matched
RowCount(s, conds) == Cardinality(BaseRepository_list(s, conds))

\* UserRepository(BaseRepository[...]) defines no delete of its own
UserRepository_delete(s, conds) == BaseRepository_delete(s, conds)

\* UserRepository.get_authenticated_user(email, password), pwOk being the
\* outcome of verify_password: the possible results
UserRepository_get_authenticated_user(s, n, pwOk) ==
    {IF pwOk THEN u ELSE NoEntity :
        u \in BaseRepository_get_one(s, {[col |-> "name", sval |-> n, ival |-> NoKey]})}

\* the methods of self._session each repository method invokes
SessionCalls(op, flush) ==
    IF op = "get" THEN {"get"}
    ELSE IF op = "add" THEN (IF flush THEN {"add", "flush"} ELSE {"add"})
    ELSE {"execute"}

\* 1 for an entity, 0 for None
Found(e) == IF e = NoEntity THEN 0 ELSE 1

\* ------------------------------------------------------- the Unit of Work
InBody == pc = "body" /\ nOps < MaxOps

Did(op) ==
    /\ lastOp' = op
    /\ nOps' = nOps + 1
    /\ UNCHANGED outsideUow

\* a repository method ran: the session methods it invoked, its arguments
Called(calls, args) ==
    /\ repoCalls' = repoCalls \cup calls
    /\ lastArgs' = args
    /\ lastValues' = NoValues
    /\ lastRows' = {}

\* a repository method that only reads, returning n entities
ReadOp(op, n) ==
    /\ InBody
    /\ lastCount' = n
    /\ Called(SessionCalls(op, FALSE), NoArgs)
    /\ Did(op)
    /\ UNCHANGED <<uowVars, sessVars, lastAdded, lastFlush>>

\* uow.<repo>.get(pk) on a BaseRepository
Get(pk) == ReadOp("get", Found(BaseRepository_get(Sess, pk)))

\* uow.<repo>.list(*args) on a BaseRepository
List(conds) == ReadOp("list", Cardinality(BaseRepository_list(Sess, conds)))

\* uow.<repo>.get_one(*args)
GetOne(conds) ==
    \E e \in BaseRepository_get_one(Sess, conds) : ReadOp("get_one", Found(e))

\* uow.users.get_authenticated_user(email, password)
GetAuthenticatedUser(n, pwOk) ==
    \E e \in UserRepository_get_authenticated_user(Sess, n, pwOk) :
        ReadOp("get_authenticated_user", Found(e))

\* uow.<repo>.get(pk) on a SoftBaseRepository
SoftGet(pk) == ReadOp("soft_get", Found(SoftBaseRepository_get(Sess, pk)))

\* uow.<repo>.list(*args) on a SoftBaseRepository
SoftList(conds) == ReadOp("soft_list", Cardinality(SoftBaseRepository_list(Sess, conds)))

\* DatabaseManager.__enter__
DatabaseManager_enter ==
    /\ pc = "new"
    /\ pc' = "body"
    /\ UNCHANGED <<bodyExc, propagated, exitCalls, bodyCommits, errLogged, rbOutcome>>
    /\ UNCHANGED <<sessVars, opVars, outsideUow>>

\* uow.<repo>.add(dto, flush)
Add(dto, flush) ==
    /\ InBody
    /\ nextId + Len(new) <= MaxRows
    /\ SetSess(BaseRepository_add(Sess, dto, flush))
    /\ lastAdded' = AddResult(Sess, dto, flush)
    /\ lastFlush' = flush
    /\ Called(SessionCalls("add", flush), NoArgs)
    /\ Did("add")
    /\ UNCHANGED <<uowVars, lastCount>>

\* uow.<repo>.update(conditions, input_values)
Update(conds, v) ==
    /\ InBody
    /\ SetSess(BaseRepository_update(Sess, conds, v))
    /\ lastCount' = RowCount(Sess, conds)
    /\ lastRows' = UpdateResult(Sess, conds, v)
    /\ lastValues' = v
    /\ lastArgs' = Args(conds, NullActor, NullTime)
    /\ repoCalls' = repoCalls \cup SessionCalls("update", FALSE)
    /\ Did("update")
    /\ UNCHANGED <<uowVars, lastAdded, lastFlush>>

\* uow.users.delete(*args)
Delete(conds) ==
    /\ InBody
    /\ SetSess(UserRepository_delete(Sess, conds))
    /\ lastCount' = RowCount(Sess, conds)
    /\ Called(SessionCalls("delete", FALSE), NoArgs)
    /\ Did("delete")
    /\ UNCHANGED <<uowVars, lastAdded, lastFlush>>

\* uow.<repo>.delete(*args, deleted_by=...) on a SoftBaseRepository
SoftDelete(conds, deleted_by, now) ==
    /\ InBody
    /\ SetSess(SoftBaseRepository_delete(Sess, conds, deleted_by, now))
    /\ lastCount' = RowCount(Sess, conds)
    /\ Called(SessionCalls("soft_delete", FALSE), Args(conds, deleted_by, now))
    /\ Did("soft_delete")
    /\ UNCHANGED <<uowVars, lastAdded, lastFlush>>

\* DatabaseManager.flush
DatabaseManager_flush ==
    /\ InBody
    /\ SetSess(Session_flush(Sess))
    /\ Called({}, NoArgs)
    /\ Did("flush")
    /\ UNCHANGED <<uowVars, lastAdded, lastFlush, lastCount>>

\* DatabaseManager.commit: the session commits, or the store fails and the
\* SQLAlchemyError is raised into the body
DatabaseManager_commit(ok) ==
    /\ InBody
    /\ bodyCommits' = bodyCommits + 1
    /\ IF ok
       THEN /\ SetSess(Session_commit(Sess))
            /\ UNCHANGED <<pc, bodyExc>>
       ELSE /\ pc' = "raising"
            /\ bodyExc' = Exc("body", "SQLAlchemyError")
            /\ UNCHANGED sessVars
    /\ Called({}, NoArgs)
    /\ Did("commit")
    /\ UNCHANGED <<propagated, exitCalls, errLogged, rbOutcome, lastAdded, lastFlush, lastCount>>

\* DatabaseManager.rollback called by the body
DatabaseManager_rollback ==
    /\ InBody
    /\ SetSess(Session_rollback(Sess))
    /\ Called({}, NoArgs)
    /\ Did("rollback")
    /\ UNCHANGED <<uowVars, lastAdded, lastFlush, lastCount>>

\* the body of the with block raises
BodyRaise(e) ==
    /\ pc = "body"
    /\ pc' = "raising"
    /\ bodyExc' = Exc("body", e)
    /\ UNCHANGED <<propagated, exitCalls, bodyCommits, errLogged, rbOutcome>>
    /\ UNCHANGED <<sessVars, opVars, outsideUow>>

\* the body of the with block completes
BodyReturn ==
    /\ pc = "body"
    /\ pc' = "returning"
    /\ UNCHANGED <<bodyExc, propagated, exitCalls, bodyCommits, errLogged, rbOutcome>>
    /\ UNCHANGED <<sessVars, opVars, outsideUow>>

\* an __exit__ that closes without rolling back
ExitEffect_NoRollback(s, exc, rb) ==
    [calls |-> <<"close">>, logged |-> FALSE, raised |-> exc,
     rb |-> IF exc = NoExc THEN "none" ELSE "ok", sess |-> Session_close(s)]

\* an __exit__ that commits when the body completes
ExitEffect_AutoCommit(s, exc, rb) ==
    IF exc = NoExc
    THEN [calls |-> <<"commit", "close">>, logged |-> FALSE, raised |-> NoExc,
          rb |-> "none", sess |-> Session_close(Session_commit(s))]
    ELSE IF rb = "ok"
    THEN [calls |-> <<"rollback", "close">>, logged |-> FALSE, raised |-> exc,
          rb |-> rb, sess |-> Session_close(Session_rollback(s))]
    ELSE [calls |-> <<"rollback", "close">>, logged |-> (rb = "SQLAlchemyError"),
          raised |-> Exc("rollback", rb), rb |-> rb, sess |-> Session_close(s)]

\* an __exit__ whose close is not in a finally clause
ExitEffect_NoFinally(s, exc, rb) ==
    IF exc = NoExc
    THEN [calls |-> <<"close">>, logged |-> FALSE, raised |-> NoExc,
          rb |-> "none", sess |-> Session_close(s)]
    ELSE IF rb = "ok"
    THEN [calls |-> <<"rollback", "close">>, logged |-> FALSE, raised |-> exc,
          rb |-> rb, sess |-> Session_close(Session_rollback(s))]
    ELSE [calls |-> <<"rollback">>, logged |-> (rb = "SQLAlchemyError"),
          raised |-> Exc("rollback", rb), rb |-> rb, sess |-> s]

\* DatabaseManager.__exit__(exc_type, ...), with the outcome rb of
\* session.rollback(): the calls it makes on the session, whether it logs the
\* cleanup error, the exception that leaves the with statement, the session
ExitEffect(s, exc, rb) ==
    IF exc = NoExc
    THEN [calls |-> <<"close">>, logged |-> FALSE, raised |-> NoExc,
          rb |-> "none", sess |-> Session_close(s)]
    ELSE IF rb = "ok"
    THEN [calls |-> <<"rollback", "close">>, logged |-> FALSE, raised |-> exc,
          rb |-> rb, sess |-> Session_close(Session_rollback(s))]
    ELSE [calls |-> <<"rollback", "close">>, logged |-> (rb = "SQLAlchemyError"),
          raised |-> Exc("rollback", rb), rb |-> rb, sess |-> Session_close(s)]

DatabaseManager_exit(rb) ==
    /\ pc \in {"returning", "raising"}
    /\ (pc = "returning") => (rb = "ok")
    /\ LET e == ExitEffect(Sess, bodyExc, rb) IN
         /\ exitCalls' = e.calls
         /\ errLogged' = e.logged
         /\ propagated' = e.raised
         /\ rbOutcome' = e.rb
         /\ SetSess(e.sess)
    /\ pc' = "done"
    /\ UNCHANGED <<bodyExc, bodyCommits, opVars, outsideUow>>

\* ------------------------------------------------------------ create user
TransportOutcomes == {"ok", "ServiceBusError", "Exception"}

\* the users row a request inserts; uuid4 gives every insert a key of its
\* own; the submitted CreateUser asks for a customer
UserRow(r) == [id |-> r, email |-> remail[r], role |-> "CUSTOMER"]

\* a users table without the unique constraint
UniqueViolation_None(rows, email) == FALSE

\* the unique constraint on users.email
UniqueViolation(rows, email) == \E u \in rows : u.email = email

\* an INSERT of a key another open transaction has inserted waits for that
\* transaction to end
Blocked(r) == \E r2 \in Requests \ {r} : UniqueViolation(rtxn[r2], remail[r])

\* the session of request r, as the Unit of Work sees it
ReqSess(r) == [new |-> <<>>, view |-> users \cup rtxn[r], db |-> users, nextId |-> r]

\* the exception handlers main() registers, the framework's handler for an
\* HTTPException (here the 401 of oauth2_scheme) and its 500 for an exception
\* no handler is registered for; 201 when create_user returns
HandlerStatus(exc) ==
    IF exc = NoExc THEN 201
    ELSE IF exc.kind = "IntegrityError" THEN 409
    ELSE IF exc.kind = "psycopg2.OperationalError" THEN 503
    ELSE IF exc.kind = "UserNotAuthorized" THEN 403
    ELSE IF exc.kind = "InvalidTokenError" THEN 401
    ELSE IF exc.kind = "HTTPException" THEN 401
    ELSE 500

\* the body each of them writes: the ErrorResponse envelope (timestamp,
\* status, title, errors, path) from the registered handlers, {"detail": ...}
\* from the framework's HTTPException handler, the plain text
\* "Internal Server Error" from the server-error middleware
ResponseBody(exc) ==
    IF exc = NoExc THEN "user"
    ELSE IF exc.kind \in {"IntegrityError", "psycopg2.OperationalError",
                          "UserNotAuthorized", "InvalidTokenError"} THEN "envelope"
    ELSE IF exc.kind = "HTTPException" THEN "detail"
    ELSE "text"

\* S.UserResult(email=user_model.email, phone=user_model.phone)
UserResult(email) == [email |-> email]

\* UserCreatedHeaders(requestor_id=user_result.email), with its defaults
UserCreatedHeaders(requestor_id) ==
    [requestor_id |-> requestor_id, content_type |-> "application/json",
     event_type |-> "UserCreated", version |-> "1.0.0"]

\* the ServiceBusMessage request r sends to the topic name: the payload as
\* body, the headers copied into application_properties, a uuid4 message id
\* (one per call, and a request calls once)
ServiceBusMessage(r, user_result, name) ==
    LET headers == UserCreatedHeaders(user_result.email) IN
    [id |-> r, email |-> user_result.email, topic |-> name,
     application_properties |-> [eventType |-> headers.event_type,
                                 version |-> headers.version,
                                 requestorId |-> headers.requestor_id],
     message_id |-> r,
     content_type |-> headers.content_type]

\* a publish that refuses to run without a topic
PublishEffect_RequiresTopic(name, out, r) ==
    IF name = ""
    THEN [sent |-> {}, sender |-> FALSE, log |-> "warning",
          raised |-> Exc("publish", "ValueError")]
    ELSE IF out = "ok"
    THEN [sent |-> {ServiceBusMessage(r, UserResult(remail[r]), name)},
          sender |-> TRUE, log |-> "info", raised |-> NoExc]
    ELSE IF out = "ServiceBusError"
    THEN [sent |-> {}, sender |-> TRUE, log |-> "exception", raised |-> NoExc]
    ELSE [sent |-> {}, sender |-> TRUE, log |-> "none", raised |-> Exc("publish", out)]

\* post_user_created_event, with the outcome out of get_topic_sender / send:
\* the messages it sends, what it logs and the exception it lets through
PublishEffect(name, out, r) ==
    IF name = ""
    THEN [sent |-> {}, sender |-> FALSE, log |-> "warning", raised |-> NoExc]
    ELSE IF out = "ok"
    THEN [sent |-> {ServiceBusMessage(r, UserResult(remail[r]), name)},
          sender |-> TRUE, log |-> "info", raised |-> NoExc]
    ELSE IF out = "ServiceBusError"
    THEN [sent |-> {}, sender |-> TRUE, log |-> "exception", raised |-> NoExc]
    ELSE [sent |-> {}, sender |-> TRUE, log |-> "none", raised |-> Exc("publish", out)]

Raise(r, e) ==
    /\ rexc' = [rexc EXCEPT ![r] = e]
    /\ rpc' = [rpc EXCEPT ![r] = "raising"]

\* create_user: with session_manager(db_session) as uow:
\*                  user_model = uow.users.add(user, flush=True)
create_user_add(r, storeUp) ==
    /\ rpc[r] = "start"
    /\ IF ~storeUp
       THEN /\ Raise(r, Exc("flush", "OperationalError"))
            /\ storeFault' = [storeFault EXCEPT ![r] = TRUE]
            /\ UNCHANGED rtxn
       ELSE /\ ~Blocked(r)
            /\ UNCHANGED storeFault
            /\ IF UniqueViolation(users, remail[r])
               THEN /\ Raise(r, Exc("flush", "IntegrityError"))
                    /\ UNCHANGED rtxn
               ELSE /\ rtxn' = [rtxn EXCEPT ![r] = {UserRow(r)}]
                    /\ rpc' = [rpc EXCEPT ![r] = "added"]
                    /\ UNCHANGED rexc
    /\ ruows' = [ruows EXCEPT ![r] = @ + 1]
    /\ rsess' = [rsess EXCEPT ![r] = "open"]
    /\ UNCHANGED <<remail, rraised, rstatus, commitOk, publishCalls, pubFailure, pubVars>>
    /\ UNCHANGED <<rtoken, rident, rran, rsessId, nextSession, rbody>>
    /\ UNCHANGED <<users, topicName, topic, outsideCreate>>

\* a create_user that absorbs a failed commit and carries on
create_user_commit_Absorbed(r, storeUp) ==
    /\ rpc[r] = "added"
    /\ IF storeUp
       THEN /\ users' = users \cup rtxn[r]
            /\ rtxn' = [rtxn EXCEPT ![r] = {}]
            /\ commitOk' = [commitOk EXCEPT ![r] = TRUE]
            /\ UNCHANGED storeFault
       ELSE /\ storeFault' = [storeFault EXCEPT ![r] = TRUE]
            /\ UNCHANGED <<users, rtxn, commitOk>>
    /\ rpc' = [rpc EXCEPT ![r] = "committed"]
    /\ UNCHANGED <<remail, rexc, rraised, rstatus, publishCalls, pubFailure, pubVars>>
    /\ UNCHANGED <<topicName, topic, gateVars, outsideCreate>>

\* create_user: uow.commit()
create_user_commit(r, storeUp) ==
    /\ rpc[r] = "added"
    /\ IF storeUp
       THEN /\ users' = users \cup rtxn[r]
            /\ rtxn' = [rtxn EXCEPT ![r] = {}]
            /\ commitOk' = [commitOk EXCEPT ![r] = TRUE]
            /\ rpc' = [rpc EXCEPT ![r] = "committed"]
            /\ UNCHANGED <<rexc, storeFault>>
       ELSE /\ Raise(r, Exc("commit", "OperationalError"))
            /\ storeFault' = [storeFault EXCEPT ![r] = TRUE]
            /\ UNCHANGED <<users, rtxn, commitOk>>
    /\ UNCHANGED <<remail, rraised, rstatus, publishCalls, pubFailure, pubVars>>
    /\ UNCHANGED <<topicName, topic, gateVars, outsideCreate>>

\* create_user: post_user_created_event(UserResult(...), client=sb_client)
create_user_publish(r, out) ==
    /\ rpc[r] = "committed"
    /\ publishCalls' = [publishCalls EXCEPT ![r] = @ + 1]
    /\ LET p == PublishEffect(topicName, out, r) IN
         /\ topic' = topic \cup p.sent
         /\ pubFailure' = [pubFailure EXCEPT ![r] =
                               IF p.sender /\ out # "ok" THEN out ELSE "none"]
         /\ pubLog' = [pubLog EXCEPT ![r] = p.log]
         /\ pubSender' = [pubSender EXCEPT ![r] = p.sender]
         /\ IF p.raised = NoExc
            THEN /\ rpc' = [rpc EXCEPT ![r] = "published"]
                 /\ UNCHANGED rexc
            ELSE Raise(r, p.raised)
    /\ UNCHANGED <<remail, rtxn, rraised, rstatus, commitOk, storeFault>>
    /\ UNCHANGED <<users, topicName, gateVars, outsideCreate>>

\* create_user: return S.User.model_validate(user_model), or the exception
\* leaves the with block; DatabaseManager.__exit__ runs, then the response
create_user_exit(r, rb) ==
    /\ rpc[r] \in {"published", "raising"}
    /\ (rpc[r] = "published") => (rb = "ok")
    /\ LET e == ExitEffect(ReqSess(r), rexc[r], rb) IN
         /\ rtxn' = [rtxn EXCEPT ![r] = e.sess.view \ e.sess.db]
         /\ rraised' = [rraised EXCEPT ![r] = e.raised]
         /\ rstatus' = [rstatus EXCEPT ![r] = HandlerStatus(e.raised)]
         /\ storeFault' = [storeFault EXCEPT ![r] = @ \/ e.rb \notin {"none", "ok"}]
         /\ rbody' = [rbody EXCEPT ![r] = ResponseBody(e.raised)]
         /\ rsess' = [rsess EXCEPT ![r] = IF "close" \in Range(e.calls) THEN "closed" ELSE @]
    /\ rpc' = [rpc EXCEPT ![r] = "done"]
    /\ UNCHANGED <<remail, rexc, commitOk, publishCalls, pubFailure, pubVars>>
    /\ UNCHANGED <<rtoken, rident, rran, ruows, rsessId, nextSession>>
    /\ UNCHANGED <<users, topicName, topic, outsideCreate>>

\* ------------------------------------------------------------ the role gate
\* a dependency that hands every request the same session object
SessionMaker_Shared(n) == NumRequests

\* _session_maker(): a new session object on every call; n - 1 were made before
SessionMaker(n) == n

\* oauth2_scheme: a request without a bearer token is refused by the framework
OAuth2PasswordBearer(tok) ==
    IF tok.kind = "missing" THEN Exc("oauth2_scheme", "HTTPException") ELSE NoExc

\* a get_current_user that returns the role the users row holds
GetCurrentUser_StoredRole(tok, rows, storeUp) ==
    IF tok.kind = "garbled"
    THEN [exc |-> Exc("decode_token", "InvalidTokenError"), uow |-> FALSE, ident |-> NoIdent]
    ELSE IF tok.sub = "" \/ tok.role = ""
    THEN [exc |-> Exc("claims", "InvalidTokenError"), uow |-> FALSE, ident |-> NoIdent]
    ELSE IF ~storeUp
    THEN [exc |-> Exc("get_one", "OperationalError"), uow |-> TRUE, ident |-> NoIdent]
    ELSE IF ~\E u \in rows : u.email = tok.sub
    THEN [exc |-> Exc("user", "InvalidTokenError"), uow |-> TRUE, ident |-> NoIdent]
    ELSE [exc |-> NoExc, uow |-> TRUE,
          ident |-> Ident(tok.sub, (CHOOSE u \in rows : u.email = tok.sub).role)]

\* a get_current_user that trusts the claims without looking the user up
GetCurrentUser_NoLookup(tok, rows, storeUp) ==
    IF tok.kind = "garbled"
    THEN [exc |-> Exc("decode_token", "InvalidTokenError"), uow |-> FALSE, ident |-> NoIdent]
    ELSE IF tok.sub = "" \/ tok.role = ""
    THEN [exc |-> Exc("claims", "InvalidTokenError"), uow |-> FALSE, ident |-> NoIdent]
    ELSE [exc |-> NoExc, uow |-> TRUE, ident |-> Ident(tok.sub, tok.role)]

\* get_current_user(token, db_session, ...) over the committed users rows, with
\* the store reachable or not: the exception raised (NoExc when it returns),
\* whether its with block was entered, the dict it returns
GetCurrentUser(tok, rows, storeUp) ==
    IF tok.kind = "garbled"
    THEN [exc |-> Exc("decode_token", "InvalidTokenError"), uow |-> FALSE, ident |-> NoIdent]
    ELSE IF tok.sub = "" \/ tok.role = ""
    THEN [exc |-> Exc("claims", "InvalidTokenError"), uow |-> FALSE, ident |-> NoIdent]
    ELSE IF ~storeUp
    THEN [exc |-> Exc("get_one", "OperationalError"), uow |-> TRUE, ident |-> NoIdent]
    ELSE IF ~\E u \in rows : u.email = tok.sub
    THEN [exc |-> Exc("user", "InvalidTokenError"), uow |-> TRUE, ident |-> NoIdent]
    ELSE [exc |-> NoExc, uow |-> TRUE, ident |-> Ident(tok.sub, tok.role)]

\* a wrapper that only checks that somebody is logged in
RequireRole_AnyRole(role, current_user) ==
    IF current_user = NoIdent THEN Exc("require_role", "UserNotAuthorized") ELSE NoExc

\* a wrapper that raises only when nobody is logged in or the role is the
\* required one
RequireRole_Inverted(role, current_user) ==
    IF current_user = NoIdent THEN Exc("require_role", "UserNotAuthorized")
    ELSE IF current_user.role # role THEN NoExc
    ELSE Exc("require_role", "UserNotAuthorized")

\* require_role(role).wrapper: NoExc when it calls the wrapped function
RequireRole(role, current_user) ==
    IF current_user = NoIdent THEN Exc("require_role", "UserNotAuthorized")
    ELSE IF current_user.role = role THEN NoExc
    ELSE Exc("require_role", "UserNotAuthorized")

\* the response to a request that ends before the handler's with block
Respond(r, e) ==
    /\ rraised' = [rraised EXCEPT ![r] = e]
    /\ rstatus' = [rstatus EXCEPT ![r] = HandlerStatus(e)]
    /\ rbody' = [rbody EXCEPT ![r] = ResponseBody(e)]
    /\ rpc' = [rpc EXCEPT ![r] = "done"]

\* db_session = Depends(get_database_session): resolved once per request
get_database_session(r) ==
    /\ rpc[r] = "request"
    /\ rsessId' = [rsessId EXCEPT ![r] = SessionMaker(nextSession)]
    /\ nextSession' = nextSession + 1
    /\ rsess' = [rsess EXCEPT ![r] = "new"]
    /\ rpc' = [rpc EXCEPT ![r] = "auth"]
    /\ UNCHANGED <<remail, rtxn, rexc, rraised, rstatus, commitOk, publishCalls, pubFailure, pubVars, storeFault>>
    /\ UNCHANGED <<rtoken, rident, rran, ruows, rbody>>
    /\ UNCHANGED <<users, topicName, topic, outsideCreate>>

\* current_user = Depends(get_current_user), with token = Depends(oauth2_scheme)
\* and the request's own db_session; rb is the outcome of the rollback when
\* the with block is left by an exception
get_current_user(r, tok, storeUp, rb) ==
    /\ rpc[r] = "auth"
    /\ rtoken' = [rtoken EXCEPT ![r] = tok]
    /\ LET refused == OAuth2PasswordBearer(tok)
           g == GetCurrentUser(tok, users, storeUp)
           entered == refused = NoExc /\ g.uow
           x == ExitEffect(ReqSess(r), g.exc, rb)
           e == IF refused # NoExc THEN refused
                ELSE IF g.uow THEN x.raised ELSE g.exc
       IN /\ ruows' = [ruows EXCEPT ![r] = IF entered THEN @ + 1 ELSE @]
          /\ rsess' = [rsess EXCEPT ![r] =
                          IF ~entered THEN @
                          ELSE IF "close" \in Range(x.calls) THEN "closed" ELSE "open"]
          /\ storeFault' = [storeFault EXCEPT ![r] =
                          @ \/ (entered /\ (~storeUp \/ x.rb \notin {"none", "ok"}))]
          /\ IF e = NoExc
             THEN /\ rident' = [rident EXCEPT ![r] = g.ident]
                  /\ rpc' = [rpc EXCEPT ![r] = "gate"]
                  /\ UNCHANGED <<rraised, rstatus, rbody>>
             ELSE /\ Respond(r, e)
                  /\ UNCHANGED rident
    /\ UNCHANGED <<remail, rtxn, rexc, commitOk, publishCalls, pubFailure, pubVars>>
    /\ UNCHANGED <<rran, rsessId, nextSession>>
    /\ UNCHANGED <<users, topicName, topic, outsideCreate>>

\* the wrapper of @require_role(UserRole.ADMIN): it calls create_user, or
\* raises UserNotAuthorized
require_role(r) ==
    /\ rpc[r] = "gate"
    /\ LET e == RequireRole(RequiredRole, rident[r]) IN
         IF e = NoExc
         THEN /\ rran' = [rran EXCEPT ![r] = TRUE]
              /\ rpc' = [rpc EXCEPT ![r] = "start"]
              /\ UNCHANGED <<rraised, rstatus, rbody>>
         ELSE /\ Respond(r, e)
              /\ UNCHANGED rran
    /\ UNCHANGED <<remail, rtxn, rexc, commitOk, publishCalls, pubFailure, pubVars, storeFault>>
    /\ UNCHANGED <<rtoken, rident, ruows, rsess, rsessId, nextSession>>
    /\ UNCHANGED <<users, topicName, topic, outsideCreate>>

\* the gate at rest: no request has arrived
GateIdle ==
    /\ rtoken = [r \in Requests |-> NoToken]
    /\ rident = [r \in Requests |-> NoIdent]
    /\ rran = [r \in Requests |-> FALSE]
    /\ ruows = [r \in Requests |-> 0]
    /\ rsess = [r \in Requests |-> "none"]
    /\ rsessId = [r \in Requests |-> 0]
    /\ nextSession = 1
    /\ rbody = [r \in Requests |-> "none"]

\* requests the gate has admitted: an administrator's token, the identity
\* resolved in a first scope on the request's session, the handler called
GateAdmitted ==
    /\ rtoken = [r \in Requests |-> [kind |-> "ok", sub |-> "e1", role |-> RequiredRole]]
    /\ rident = [r \in Requests |-> Ident("e1", RequiredRole)]
    /\ rran = [r \in Requests |-> TRUE]
    /\ ruows = [r \in Requests |-> 1]
    /\ rsess = [r \in Requests |-> "closed"]
    /\ rsessId = [r \in Requests |-> r]
    /\ nextSession = NumRequests + 1
    /\ rbody = [r \in Requests |-> "none"]

\* -------------------------------------------------------------- the engine
\* _get_engine is entered: `if app_settings.IN_AZURE: pass`, else the
\* connection string is built
get_engine_enter(t) ==
    /\ tpc[t] = "idle"
    /\ tcalls[t] < MaxCalls
    /\ tcalls' = [tcalls EXCEPT ![t] = @ + 1]
    /\ tpc' = [tpc EXCEPT ![t] = "check"]
    /\ UNCHANGED <<engine, created, returned, tlocal, traised, inAzure, outsideEngine>>

\* `if not _ENGINE:` reads the global
get_engine_check(t) ==
    /\ tpc[t] = "check"
    /\ tpc' = [tpc EXCEPT ![t] = IF engine = NoEngine THEN "create" ELSE "return"]
    /\ UNCHANGED <<engine, created, returned, tlocal, tcalls, traised, inAzure, outsideEngine>>

\* a _get_engine that binds a connection string in every environment
get_engine_create_Bound(t) ==
    /\ tpc[t] = "create"
    /\ created' = created + 1
    /\ tlocal' = [tlocal EXCEPT ![t] = created + 1]
    /\ tpc' = [tpc EXCEPT ![t] = "store"]
    /\ UNCHANGED <<engine, returned, tcalls, traised, inAzure, outsideEngine>>

\* create_engine(connection_string, ...): in Azure connection_string was never
\* bound and evaluating the argument raises UnboundLocalError
get_engine_create(t) ==
    /\ tpc[t] = "create"
    /\ IF inAzure
       THEN /\ traised' = [traised EXCEPT ![t] = @ + 1]
            /\ tpc' = [tpc EXCEPT ![t] = "idle"]
            /\ UNCHANGED <<created, tlocal>>
       ELSE /\ created' = created + 1
            /\ tlocal' = [tlocal EXCEPT ![t] = created + 1]
            /\ tpc' = [tpc EXCEPT ![t] = "store"]
            /\ UNCHANGED traised
    /\ UNCHANGED <<engine, returned, tcalls, inAzure, outsideEngine>>

\* `_ENGINE = ...` stores the new engine in the global
get_engine_store(t) ==
    /\ tpc[t] = "store"
    /\ engine' = tlocal[t]
    /\ tpc' = [tpc EXCEPT ![t] = "return"]
    /\ UNCHANGED <<created, returned, tlocal, tcalls, traised, inAzure, outsideEngine>>

\* `return _ENGINE` reads the global again
get_engine_return(t) ==
    /\ tpc[t] = "return"
    /\ returned' = returned \cup {engine}
    /\ tpc' = [tpc EXCEPT ![t] = "idle"]
    /\ UNCHANGED <<engine, created, tlocal, tcalls, traised, inAzure, outsideEngine>>

\* ------------------------------------------------------------ the password
\* the characters of a password and of a salt; a str is a sequence of them
PwChars == {"p", "q"}
Salts == {"s1", "s2"}

\* password: str of CreateUser
Plaintexts == UNION {[1..n -> PwChars] : n \in 0..MaxPwLen}

\* CreateUser, the fields that matter here
CreateUsers == [email : Emails, password : Plaintexts]

\* the keyed one-way transform of bcrypt, character by character: one
\* permutation of the output alphabet per salt
Digest == [s1 |-> [p |-> "x", q |-> "y"], s2 |-> [p |-> "y", q |-> "x"]]

\* bcrypt.hashpw(raw, salt): the version tag, the salt, the digest under it
bcrypt_hashpw(raw, salt) ==
    <<"$2b$", salt>> \o [i \in 1..Len(raw) |-> Digest[salt][raw[i]]]

\* bcrypt.checkpw(raw, hashed): hash raw again under the salt that hashed
\* carries and compare; a string that carries no salt is rejected
bcrypt_checkpw(raw, hashed) ==
    IF Len(hashed) < 2 \/ hashed[1] # "$2b$" \/ hashed[2] \notin Salts
    THEN "ValueError"
    ELSE IF bcrypt_hashpw(raw, hashed[2]) = hashed THEN "True" ELSE "False"

\* a setter that keeps what it is given
User_password_set_Plain(raw, salt) == raw

\* @password.setter: self._password = bcrypt.hashpw(raw, bcrypt.gensalt())
User_password_set(raw, salt) == bcrypt_hashpw(raw, salt)

\* @property password: raise AttributeError("Password is write only!")
User_password_get(u) == "AttributeError"

\* User.verify_password(raw)
User_verify_password(u, raw) == bcrypt_checkpw(raw, u._password)

\* self.model(**input_model.model_dump()): the keyword password goes through
\* the setter, with the salt gensalt() drew
UserModel(k, dto, salt) ==
    [id |-> k, email |-> dto.email, _password |-> User_password_set(dto.password, salt)]

\* the fields of the response schema User: those of BaseUser, id and the
\* two timestamps
UserSchemaFields == {"first_name", "last_name", "email", "phone", "address",
                     "role", "created_by", "updated_by",
                     "id", "created_at", "updated_at"}

\* S.User.model_validate(user_model): the schema's fields, read off the model
S_User_model_validate(u) == [f \in UserSchemaFields \cap DOMAIN u |-> u[f]]

NoBody == <<>>

\* an access to the password of the i-th stored user and how it ended
Access(op, i, raw, result) == [op |-> op, user |-> i, raw |-> raw, result |-> result]
NoAccess == Access("none", 0, <<>>, "none")

\* uow.users.add(user, flush=True) on a working store
users_add(dto, salt) ==
    /\ Len(stored) < MaxRows
    /\ \A i \in DOMAIN stored : stored[i].email # dto.email
    /\ stored' = Append(stored, UserModel(Len(stored) + 1, dto, salt))
    /\ submitted' = Append(submitted, dto.password)
    /\ pwLast' = Access("add", Len(stored) + 1, dto.password, "none")
    /\ UNCHANGED <<pwBody, outsidePassword>>

\* create_user: return S.User.model_validate(user_model)
create_user_return(i) ==
    /\ i \in DOMAIN stored
    /\ pwBody' = S_User_model_validate(stored[i])
    /\ UNCHANGED <<stored, submitted, pwLast, outsidePassword>>

\* user.verify_password(raw), as login calls it
verify_password(i, raw) ==
    /\ i \in DOMAIN stored
    /\ pwLast' = Access("verify", i, raw, User_verify_password(stored[i], raw))
    /\ UNCHANGED <<stored, submitted, pwBody, outsidePassword>>

\* user.password is read
read_password(i) ==
    /\ i \in DOMAIN stored
    /\ pwLast' = Access("read", i, <<>>, User_password_get(stored[i]))
    /\ UNCHANGED <<stored, submitted, pwBody, outsidePassword>>

\* ------------------------------------------------------------ the consumer
\* the attributes class AppSettings declares
AppSettingsFields == {"SERVER_API_DOMAIN", "ENVIRONMENT", "RELEASE", "DATABASE_URI",
                      "APP_POOL_SIZE", "DB_USER", "DB_PASSWORD", "DB_HOST", "DB_NAME",
                      "AZURE_CLIENT_ID", "DB_PORT", "SB_NAMESPACE", "SB_TOPIC",
                      "SB_SUBSCRIPTION", "SECRET_KEY", "ALGORITHM", "IN_AZURE"}

\* app_settings.<name>: the value is there, or the lookup raises
Getattr(name) ==
    IF name \in AppSettingsFields THEN NoExc ELSE Exc(name, "AttributeError")

\* what a message on the subscription carries: the JSON of a UserResult, a
\* JSON object without email, or bytes that are not JSON
Bodies == {"email", "noemail", "garbled"}

\* the topic forwards a published message to the subscription
deliver(body) ==
    /\ Len(subscription) < MaxMessages
    /\ subscription' = Append(subscription, [id |-> Len(subscription) + 1, body |-> body])
    /\ UNCHANGED <<cpc, cexc, completed, abandoned, outsideConsumer>>

\* consume_user_created_events up to its first receive_messages: the client
\* is built from SB_NAMESPACE, then the arguments of
\* get_subscription_receiver are evaluated, topic_name first; an exception
\* there leaves both with blocks and ends the coroutine
consume_user_created_events ==
    /\ cpc = "new"
    /\ LET e1 == Getattr("SB_NAMESPACE")
           e2 == Getattr("SB_ECOMMERCE_USER_CREATED_TOPIC")
           e3 == Getattr("SB_SUBSCRIPTION")
           e == IF e1 # NoExc THEN e1 ELSE IF e2 # NoExc THEN e2 ELSE e3
       IN /\ cexc' = e
          /\ cpc' = IF e = NoExc THEN "receiving" ELSE "crashed"
    /\ UNCHANGED <<subscription, completed, abandoned, outsideConsumer>>

\* the process before any call of _get_engine
EngineIdle ==
    /\ engine = NoEngine
    /\ created = 0
    /\ returned = {}
    /\ tpc = [t \in Threads |-> "idle"]
    /\ tlocal = [t \in Threads |-> NoEngine]
    /\ tcalls = [t \in Threads |-> 0]
    /\ traised = [t \in Threads |-> 0]
    /\ inAzure = FALSE

\* no user stored with a password, no response sent
PasswordIdle ==
    /\ stored = <<>>
    /\ submitted = <<>>
    /\ pwLast = NoAccess
    /\ pwBody = NoBody

\* the consumer process not started, nothing on its subscription
ConsumerIdle ==
    /\ subscription = <<>>
    /\ cpc = "new"
    /\ cexc = NoExc
    /\ completed = {}
    /\ abandoned = {}

UowInit ==
    /\ pc = "new"
    /\ bodyExc = NoExc
    /\ propagated = NoExc
    /\ rbOutcome = "none"
    /\ exitCalls = <<>>
    /\ bodyCommits = 0
    /\ errLogged = FALSE
    /\ new = <<>>
    /\ view = {}
    /\ db = {}
    /\ nextId = 1
    /\ lastOp = "none"
    /\ lastAdded = NoEntity
    /\ lastFlush = FALSE
    /\ lastCount = 0
    /\ nOps = 0
    /\ repoCalls = {}
    /\ lastArgs = NoArgs
    /\ lastValues = NoValues
    /\ lastRows = {}

\* the create-user side at rest: no request, an empty table, no topic
CreateIdle ==
    /\ rpc = [r \in Requests |-> "done"]
    /\ remail = [r \in Requests |-> "e1"]
    /\ rtxn = [r \in Requests |-> {}]
    /\ users = {}
    /\ rexc = [r \in Requests |-> NoExc]
    /\ rraised = [r \in Requests |-> NoExc]
    /\ rstatus = [r \in Requests |-> 0]
    /\ commitOk = [r \in Requests |-> FALSE]
    /\ publishCalls = [r \in Requests |-> 0]
    /\ pubFailure = [r \in Requests |-> "none"]
    /\ pubLog = [r \in Requests |-> "none"]
    /\ pubSender = [r \in Requests |-> FALSE]
    /\ storeFault = [r \in Requests |-> FALSE]
    /\ topicName = ""
    /\ topic = {}

Init ==
    /\ UowInit
    /\ CreateIdle
    /\ GateIdle
    /\ EngineIdle
    /\ PasswordIdle
    /\ ConsumerIdle

Next ==
    \/ DatabaseManager_enter
    \/ \E dto \in InputDTOs, flush \in BOOLEAN : Add(dto, flush)
    \/ \E conds \in Conditions, v \in ValueMaps : Update(conds, v)
    \/ \E conds \in Conditions : Delete(conds)
    \/ \E conds \in Conditions, by \in DeletedByArgs, now \in Times : SoftDelete(conds, by, now)
    \/ \E pk \in Keys \cup {NoKey} : Get(pk)
    \/ \E conds \in Conditions : List(conds)
    \/ \E conds \in Conditions : GetOne(conds)
    \/ \E n \in Names, pwOk \in BOOLEAN : GetAuthenticatedUser(n, pwOk)
    \/ \E pk \in Keys \cup {NoKey} : SoftGet(pk)
    \/ \E conds \in Conditions : SoftList(conds)
    \/ DatabaseManager_flush
    \/ \E ok \in BOOLEAN : DatabaseManager_commit(ok)
    \/ DatabaseManager_rollback
    \/ \E e \in ExceptionKinds : BodyRaise(e)
    \/ BodyReturn
    \/ \E rb \in RollbackOutcomes : DatabaseManager_exit(rb)

Spec == Init /\ [][Next]_vars

\* the Unit-of-Work side at rest: the scope has been left
UowIdle ==
    /\ pc = "done"
    /\ bodyExc = NoExc
    /\ propagated = NoExc
    /\ rbOutcome = "none"
    /\ exitCalls = <<>>
    /\ bodyCommits = 0
    /\ errLogged = FALSE
    /\ new = <<>>
    /\ view = {}
    /\ db = {}
    /\ nextId = 1
    /\ lastOp = "none"
    /\ lastAdded = NoEntity
    /\ lastFlush = FALSE
    /\ lastCount = 0
    /\ nOps = 0
    /\ repoCalls = {}
    /\ lastArgs = NoArgs
    /\ lastValues = NoValues
    /\ lastRows = {}

\* requests with any emails, a users table that is empty or holds one user,
\* the topic configured or not
InitCreate ==
    /\ UowIdle
    /\ GateAdmitted
    /\ EngineIdle
    /\ PasswordIdle
    /\ ConsumerIdle
    /\ rpc = [r \in Requests |-> "start"]
    /\ remail \in [Requests -> Emails]
    /\ rtxn = [r \in Requests |-> {}]
    /\ users \in {{}, {[id |-> 0, email |-> "e1", role |-> RequiredRole]}}
    /\ rexc = [r \in Requests |-> NoExc]
    /\ rraised = [r \in Requests |-> NoExc]
    /\ rstatus = [r \in Requests |-> 0]
    /\ commitOk = [r \in Requests |-> FALSE]
    /\ publishCalls = [r \in Requests |-> 0]
    /\ pubFailure = [r \in Requests |-> "none"]
    /\ pubLog = [r \in Requests |-> "none"]
    /\ pubSender = [r \in Requests |-> FALSE]
    /\ storeFault = [r \in Requests |-> FALSE]
    /\ topicName \in TopicNames
    /\ topic = {}

NextCreate ==
    \/ \E r \in Requests, storeUp \in BOOLEAN : create_user_add(r, storeUp)
    \/ \E r \in Requests, storeUp \in BOOLEAN : create_user_commit(r, storeUp)
    \/ \E r \in Requests, out \in TransportOutcomes : create_user_publish(r, out)
    \/ \E r \in Requests, rb \in RollbackOutcomes : create_user_exit(r, rb)

SpecCreate == InitCreate /\ [][NextCreate]_vars

\* requests that have just arrived, all to create the user "e2", a users
\* table that is empty or holds the user "e1", the topic configured or not
InitGate ==
    /\ UowIdle
    /\ GateIdle
    /\ EngineIdle
    /\ PasswordIdle
    /\ ConsumerIdle
    /\ rpc = [r \in Requests |-> "request"]
    /\ remail = [r \in Requests |-> "e2"]
    /\ rtxn = [r \in Requests |-> {}]
    /\ users \in {{}} \cup {{[id |-> 0, email |-> "e1", role |-> ro]} : ro \in Roles}
    /\ rexc = [r \in Requests |-> NoExc]
    /\ rraised = [r \in Requests |-> NoExc]
    /\ rstatus = [r \in Requests |-> 0]
    /\ commitOk = [r \in Requests |-> FALSE]
    /\ publishCalls = [r \in Requests |-> 0]
    /\ pubFailure = [r \in Requests |-> "none"]
    /\ pubLog = [r \in Requests |-> "none"]
    /\ pubSender = [r \in Requests |-> FALSE]
    /\ storeFault = [r \in Requests |-> FALSE]
    /\ topicName \in TopicNames
    /\ topic = {}

NextGate ==
    \/ \E r \in Requests : get_database_session(r)
    \/ \E r \in Requests, tok \in Tokens, storeUp \in BOOLEAN, rb \in RollbackOutcomes :
           get_current_user(r, tok, storeUp, rb)
    \/ \E r \in Requests : require_role(r)
    \/ \E r \in Requests, storeUp \in BOOLEAN : create_user_add(r, storeUp)
    \/ \E r \in Requests, storeUp \in BOOLEAN : create_user_commit(r, storeUp)
    \/ \E r \in Requests, out \in TransportOutcomes : create_user_publish(r, out)
    \/ \E r \in Requests, rb \in RollbackOutcomes : create_user_exit(r, rb)

SpecGate == InitGate /\ [][NextGate]_vars

\* a fresh process, in Azure or not, whose threads call _get_engine
InitEngine ==
    /\ UowIdle
    /\ CreateIdle
    /\ GateIdle
    /\ PasswordIdle
    /\ ConsumerIdle
    /\ engine = NoEngine
    /\ created = 0
    /\ returned = {}
    /\ tpc = [t \in Threads |-> "idle"]
    /\ tlocal = [t \in Threads |-> NoEngine]
    /\ tcalls = [t \in Threads |-> 0]
    /\ traised = [t \in Threads |-> 0]
    /\ inAzure \in BOOLEAN

NextEngine ==
    \/ \E t \in Threads : get_engine_enter(t)
    \/ \E t \in Threads : get_engine_check(t)
    \/ \E t \in Threads : get_engine_create(t)
    \/ \E t \in Threads : get_engine_store(t)
    \/ \E t \in Threads : get_engine_return(t)

SpecEngine == InitEngine /\ [][NextEngine]_vars

\* users created with any password and salt, then verified, read and returned
InitPassword ==
    /\ UowIdle
    /\ CreateIdle
    /\ GateIdle
    /\ EngineIdle
    /\ PasswordIdle
    /\ ConsumerIdle

NextPassword ==
    \/ \E dto \in CreateUsers, salt \in Salts : users_add(dto, salt)
    \/ \E i \in Keys : create_user_return(i)
    \/ \E i \in Keys, raw \in Plaintexts : verify_password(i, raw)
    \/ \E i \in Keys : read_password(i)

SpecPassword == InitPassword /\ [][NextPassword]_vars

\* messages arrive on the subscription; the consumer process is started
InitConsumer ==
    /\ UowIdle
    /\ CreateIdle
    /\ GateIdle
    /\ EngineIdle
    /\ PasswordIdle
    /\ ConsumerIdle

NextConsumer ==
    \/ \E body \in Bodies : deliver(body)
    \/ consume_user_created_events

SpecConsumer == InitConsumer /\ [][NextConsumer]_vars

\* ------------------------------------------------------------------ claims
SameEmail(r1, r2) == r1 # r2 /\ remail[r1] = remail[r2]
BothDone(r1, r2) == rpc[r1] = "done" /\ rpc[r2] = "done"
RowsWithEmail(e) == {u \in users : u.email = e}
SoftDeleted(r) == r.deleted_at # NullTime /\ r.deleted_by # NullActor

\* C1 as stated: when the body of the scope raised, __exit__ called rollback
\* once and then close once and no commit, and the exception that left the
\* scope is the one the body raised.
C1_BodyExceptionPropagates ==
    (pc = "done" /\ bodyExc # NoExc) =>
        /\ exitCalls = <<"rollback", "close">>
        /\ propagated = bodyExc

\* C1 amended: when the body raised, __exit__ called rollback once and then
\* close once and no commit, and an exception left the scope: the body's
\* when rollback returned, the rollback's own failure when rollback raised.
C1_RollbackThenClose ==
    (pc = "done" /\ bodyExc # NoExc) =>
        /\ exitCalls = <<"rollback", "close">>
        /\ propagated # NoExc
        /\ (rbOutcome = "ok") => (propagated = bodyExc)
        /\ (rbOutcome # "ok") => (propagated = Exc("rollback", rbOutcome))

C1_Witness ==
    /\ pc = "done"
    /\ bodyExc = Exc("body", "Exception")
    /\ rbOutcome = "ok"
    /\ exitCalls = <<"rollback", "close">>
    /\ propagated = bodyExc

\* C2: when the body completed without raising, __exit__ called close once
\* and neither commit nor rollback, nothing left the scope, and rows are
\* durable only if the body called commit() itself.
C2_NormalExitClosesOnly ==
    (pc = "done" /\ bodyExc = NoExc) =>
        /\ exitCalls = <<"close">>
        /\ rbOutcome = "none"
        /\ propagated = NoExc
        /\ (db # {}) => (bodyCommits > 0)

C2_Witness ==
    /\ pc = "done"
    /\ bodyExc = NoExc
    /\ exitCalls = <<"close">>
    /\ lastOp = "add"
    /\ bodyCommits = 0

\* C3 as stated: when rollback failed in __exit__, the failure was logged, it
\* is the exception that left the scope, and close was called once after the
\* rollback, whatever the class of the failure.
C3_RollbackFailureLogged ==
    (pc = "done" /\ rbOutcome \notin {"none", "ok"}) =>
        /\ errLogged
        /\ propagated = Exc("rollback", rbOutcome)
        /\ exitCalls = <<"rollback", "close">>

\* C3 amended: when rollback failed in __exit__, the failure is the exception
\* that left the scope and close was called once after the rollback, whatever
\* the class of the failure; __exit__ logged it exactly when it is a
\* SQLAlchemyError.
C3_RollbackFailureReraised ==
    (pc = "done" /\ rbOutcome \notin {"none", "ok"}) =>
        /\ propagated = Exc("rollback", rbOutcome)
        /\ exitCalls = <<"rollback", "close">>
        /\ errLogged <=> (rbOutcome = "SQLAlchemyError")

C3_Witness ==
    /\ pc = "done"
    /\ bodyExc # NoExc
    /\ rbOutcome = "SQLAlchemyError"
    /\ errLogged
    /\ propagated = Exc("rollback", "SQLAlchemyError")
    /\ exitCalls = <<"rollback", "close">>

\* C4: the committed rows change only in a step in which the body calls
\* commit(), and the step that leaves the scope, normally or by exception,
\* changes no committed row and leaves the session without pending objects
\* and without uncommitted rows.
C4_UncommittedNeverDurable ==
    [][ /\ (db' # db) => (pc = "body" /\ lastOp' = "commit" /\ bodyCommits' = bodyCommits + 1)
        /\ (pc # "done" /\ pc' = "done") => (db' = db /\ new' = <<>> /\ view' = db')
      ]_vars

C4_Witness ==
    /\ pc = "done"
    /\ lastOp \in {"add", "update", "delete", "soft_delete", "flush"}
    /\ nextId > 1
    /\ bodyCommits = 0
    /\ db = {}
    /\ view = {}
    /\ new = <<>>

C6_PublishFailureSwallowed ==
    \A r \in Requests :
        (rpc[r] = "done" /\ pubFailure[r] # "none") =>
            /\ rstatus[r] = 201
            /\ rraised[r] = NoExc
            /\ UserRow(r) \in users

C9_SoftDeletedHidden ==
    \A r \in view :
        SoftDeleted(r) =>
            /\ SoftBaseRepository_get(Sess, r.id) # r
            /\ \A c \in Conditions : r \notin SoftBaseRepository_list(Sess, c)
            /\ \A c \in Conditions : r \notin SoftBaseRepository_get_one(Sess, c)
            /\ BaseRepository_get(Sess, r.id) = r

\* C10: every row, pending, in the open transaction or committed, has
\* deleted_at and deleted_by both null or both set.
C10_DeletedPairTogether ==
    \A r \in view \cup db \cup Range(new) :
        (r.deleted_at = NullTime) <=> (r.deleted_by = NullActor)

\* the request is inside the function create_user
InHandler(r) == rpc[r] \in {"start", "added", "committed", "published", "raising"}

\* the request's claims carry a subject and a role
HasClaims(tok) == tok.kind = "ok" /\ tok.sub # "" /\ tok.role # ""

\* the step in which get_current_user runs for request r
AuthStep(r) == rpc[r] = "auth" /\ rpc'[r] # "auth"

\* C11: a request to the role-gated create_user whose token is missing or
\* garbled ends with 401; one whose token resolved to an identity of another
\* role ends with 403 and the handler function is never called; one whose
\* token resolved to an identity of the required role has the handler called;
\* the handler runs only for an identity of the required role.
C11_RoleGate ==
    \A r \in Requests :
        /\ (rpc[r] = "done" /\ rtoken[r].kind \in {"missing", "garbled"}) =>
               (rstatus[r] = 401 /\ ~rran[r])
        /\ (rident[r] # NoIdent /\ rident[r].role # RequiredRole) =>
               /\ ~rran[r] /\ ~InHandler(r)
               /\ rpc[r] = "done" => rstatus[r] = 403
        /\ (rident[r] # NoIdent /\ rident[r].role = RequiredRole /\ rpc[r] # "gate") =>
               rran[r]
        /\ (rran[r] \/ InHandler(r)) =>
               (rident[r] # NoIdent /\ rident[r].role = RequiredRole)

C11_Witness ==
    \E r1, r2 \in Requests :
        /\ rident[r1].role = "CUSTOMER" /\ rstatus[r1] = 403
        /\ rident[r2].role = RequiredRole /\ rran[r2] /\ rstatus[r2] = 201

\* C12: a create-user request of a CUSTOMER ends with 403 and without side
\* effects: the handler never enters a Unit of Work (the only scope on the
\* session is the identity lookup's), no users row of the request is staged
\* or committed, no event is published.
C12_CustomerCreateNoEffect ==
    \A r \in Requests :
        (rident[r].role = "CUSTOMER") =>
            /\ rpc[r] \in {"gate", "done"}
            /\ rpc[r] = "done" => rstatus[r] = 403
            /\ ruows[r] = 1
            /\ rtxn[r] = {}
            /\ UserRow(r) \notin users
            /\ publishCalls[r] = 0
            /\ \A m \in topic : m.id # r

C12_Witness ==
    \E r \in Requests :
        /\ rident[r].role = "CUSTOMER" /\ rstatus[r] = 403
        /\ \E r2 \in Requests : commitOk[r2] /\ publishCalls[r2] = 1

C14_ErrorEnvelope ==
    \A r \in Requests :
        (rpc[r] = "done" /\ rstatus[r] >= 400) => rbody[r] = "envelope"

\* C16 as stated: a request uses exactly one Unit of Work over one session of
\* its own: no session is used by two requests, no request enters more than
\* one scope on its session, and the session is closed when the response is
\* produced.
C16_OneUowPerRequest ==
    /\ \A r1, r2 \in Requests :
           (r1 # r2 /\ rsessId[r1] # 0) => rsessId[r1] # rsessId[r2]
    /\ \A r \in Requests :
           /\ ruows[r] <= 1
           /\ (rpc[r] = "done" /\ ruows[r] > 0) => rsess[r] = "closed"

\* C16 amended: a request has one session of its own, used by no other
\* request; it enters at most two scopes on it, one after the other: the one
\* of get_current_user, then the one of the handler the gate admitted; every
\* scope entered has closed the session when the response is produced.
C16_ScopesPerRequest ==
    /\ \A r1, r2 \in Requests :
           (r1 # r2 /\ rsessId[r1] # 0) => rsessId[r1] # rsessId[r2]
    /\ \A r \in Requests :
           /\ ruows[r] <= 2
           /\ ruows[r] = 2 => rran[r]
           /\ rsess[r] = "open" => (InHandler(r) /\ ruows[r] = 2)
           /\ (rpc[r] = "done" /\ ruows[r] > 0) => rsess[r] = "closed"

C16_Witness ==
    \E r1, r2 \in Requests :
        /\ rpc[r1] = "done" /\ ruows[r1] = 2 /\ rsess[r1] = "closed"
        /\ rpc[r2] = "done" /\ ruows[r2] = 1 /\ rsess[r2] = "closed"
        /\ rsessId[r1] # rsessId[r2]

\* the step in which the body calls the repository method op
RepoStep(op) == lastOp' = op /\ nOps' = nOps + 1

\* C15: no repository method invokes commit, rollback or close on the
\* session: none of them is among the session methods the repository calls,
\* and a repository step changes no committed row, leaves the scope where it
\* is, and discards neither a pending object nor a row of the open
\* transaction (an add keeps or flushes what was pending, a read changes
\* nothing).
C15_RepositoryLeavesBoundary ==
    [][/\ repoCalls' \cap {"commit", "rollback", "close"} = {}
       /\ \A op \in RepoOps : RepoStep(op) =>
            /\ db' = db
            /\ pc' = pc /\ exitCalls' = exitCalls /\ bodyCommits' = bodyCommits
            /\ op # "add" => new' = new
            /\ op = "add" =>
                  \/ Len(new') = Len(new) + 1 /\ view' = view
                  \/ new' = <<>> /\ view \subseteq view'
                       /\ Cardinality(view') = Cardinality(view) + Len(new) + 1
            /\ op \in {"get", "list", "get_one", "get_authenticated_user",
                       "soft_get", "soft_list"} => view' = view]_vars

C15_Witness ==
    /\ repoCalls = {"get", "add", "flush", "execute"}
    /\ lastOp = "get_authenticated_user"
    /\ view # db

\* C18: a delete through uow.users.delete removes no row physically: every
\* row is still there after it, and the rows it changed carry both deletion
\* fields.
C18_UserDeleteKeepsRow ==
    [][RepoStep("delete") =>
          \A r \in view : \E r2 \in view' :
              r2.id = r.id /\ (r2 = r \/ SoftDeleted(r2))]_vars

\* C19 as stated: the soft delete updates in place every row that matches all
\* predicates, sets deleted_at to the current time and deleted_by to the
\* actor given, or to "unknown" when none is given, and returns the number of
\* rows it updated.
C19_SoftDeleteDefaultUnknown ==
    [][RepoStep("soft_delete") =>
          LET a == lastArgs'
              by == IF a.by = NullActor THEN "unknown" ELSE a.by
          IN /\ view' = {IF Matches(r, a.conds)
                         THEN [r EXCEPT !.deleted_at = a.now, !.deleted_by = by]
                         ELSE r : r \in view}
             /\ lastCount' = Cardinality({r \in view : Matches(r, a.conds)})]_vars

\* C19 amended: the same, the actor recorded when none (None or "") is given
\* being "Mr Unknown".
C19_SoftDeleteDefaultMrUnknown ==
    [][RepoStep("soft_delete") =>
          LET a == lastArgs'
              by == IF a.by \in {NullActor, ""} THEN "Mr Unknown" ELSE a.by
          IN /\ view' = {IF Matches(r, a.conds)
                         THEN [r EXCEPT !.deleted_at = a.now, !.deleted_by = by]
                         ELSE r : r \in view}
             /\ lastCount' = Cardinality({r \in view : Matches(r, a.conds)})]_vars

C19_Witness ==
    /\ lastOp = "soft_delete"
    /\ lastArgs.by = NullActor
    /\ lastCount = 2
    /\ \A r \in view : r.deleted_by = "Mr Unknown" /\ r.deleted_at = lastArgs.now

\* C20: when the topic name is not configured, the publish sends no message
\* and obtains no topic sender, logs a warning and returns without raising:
\* the request goes on to its response, 201 with the created user, as it
\* would have without the publish.
C20_NoTopicNoPublish ==
    \A r \in Requests :
        (topicName = "" /\ publishCalls[r] > 0) =>
            /\ topic = {}
            /\ ~pubSender[r]
            /\ pubLog[r] = "warning"
            /\ pubFailure[r] = "none"
            /\ rpc[r] \in {"published", "done"}
            /\ rexc[r] = NoExc
            /\ rpc[r] = "done" =>
                  /\ rraised[r] = NoExc
                  /\ rstatus[r] = 201
                  /\ UserRow(r) \in users

C20_Witness ==
    \E r \in Requests :
        /\ topicName = "" /\ publishCalls[r] = 1 /\ pubLog[r] = "warning"
        /\ rpc[r] = "done" /\ rstatus[r] = 201

\* C17: the engine is created at most once per process: however many calls
\* of _get_engine there are, concurrent first calls included, create_engine
\* has run exactly once when a call returns, and all calls return the same
\* engine.
C17_EngineCreatedOnce ==
    /\ created <= 1
    /\ returned # {} => created = 1
    /\ Cardinality(returned) <= 1
    /\ NoEngine \notin returned

\* C21: a request whose repository call found the store unreachable ends with
\* the 503 response of server_unavailable_handler, in the envelope, after that
\* one attempt.
C21_StoreUnavailable503 ==
    \A r \in Requests :
        (rpc[r] = "done" /\ rexc[r] = Exc("flush", "OperationalError")) =>
            /\ rstatus[r] = 503
            /\ rbody[r] = "envelope"
            /\ ruows[r] = 2

\* the session after the step
SessNext == [new |-> new', view |-> view', db |-> db', nextId |-> nextId']

\* the number of rows a list without filters returns
Listed(s) == Cardinality(BaseRepository_list(s, {}))

\* the step in which the body calls uow.flush()
FlushStep == lastOp' = "flush" /\ nOps' = nOps + 1

C23_UpdateExactlyMatching ==
    [][RepoStep("update") =>
          LET conds == lastArgs'.conds
              v == lastValues'
              hit == {r \in view : \A p \in conds :
                         IF p.col = "id" THEN r.id = p.ival ELSE r.name = p.sval}
              changed(r) ==
                  [id |-> r.id,
                   name |-> IF "name" \in DOMAIN v THEN v.name ELSE r.name,
                   deleted_at |-> IF "deleted_at" \in DOMAIN v THEN v.deleted_at
                                  ELSE r.deleted_at,
                   deleted_by |-> IF "deleted_by" \in DOMAIN v THEN v.deleted_by
                                  ELSE r.deleted_by]
          IN /\ lastRows' = {changed(r) : r \in hit}
             /\ lastCount' = Cardinality(hit)
             /\ view' = (view \ hit) \cup lastRows'
             /\ \A r \in view \ hit : r \in view'
             /\ new' = new /\ db' = db]_vars

C23_Witness ==
    /\ lastOp = "update"
    /\ lastCount = 1
    /\ Cardinality(view) = 2
    /\ \E r \in lastRows : r \in view /\ r.name = "b" /\ lastValues = [name |-> "b"]
    /\ \E r \in view : r \notin lastRows /\ r.name = "a"

\* C24: a row that is soft-deleted already is left alone by the writes of the
\* soft-delete repository: a delete or an update keeps all its columns, the
\* delete does not count it and the update does not return it.
C24_SoftDeletedNotRewritten ==
    [][/\ RepoStep("soft_delete") =>
             /\ \A r \in view : SoftDeleted(r) => r \in view'
             /\ lastCount' = Cardinality({r \in view :
                                 Matches(r, lastArgs'.conds) /\ ~SoftDeleted(r)})
       /\ RepoStep("update") =>
             /\ \A r \in view : SoftDeleted(r) => r \in view'
             /\ \A r \in view : SoftDeleted(r) => \A u \in lastRows' : u.id # r.id]_vars


\* C25: the password is write-only and stored only as a hash: for every user
\* created through add, the stored password column differs from the
\* submitted plaintext, verify_password(plaintext) on the stored user is
\* true, reading the password attribute fails, and the create-user response
\* body contains no password field.
C25_PasswordWriteOnly ==
    /\ \A i \in DOMAIN stored :
           /\ stored[i]._password # submitted[i]
           /\ User_verify_password(stored[i], submitted[i]) = "True"
    /\ (pwLast.op = "verify" /\ pwLast.raw = submitted[pwLast.user]) =>
           pwLast.result = "True"
    /\ pwLast.op = "read" => pwLast.result = "AttributeError"
    /\ DOMAIN pwBody \cap {"password", "_password"} = {}

C25_Witness ==
    /\ Len(stored) = 2
    /\ submitted[1] = submitted[2] /\ Len(submitted[1]) = MaxPwLen
    /\ stored[1]._password # stored[2]._password
    /\ pwLast.op = "verify" /\ pwLast.user = 2 /\ pwLast.raw = submitted[2]
    /\ "email" \in DOMAIN pwBody

\* C26: every published UserCreated message carries eventType "UserCreated",
\* version "1.0.0" and a requestorId equal to the identity of the caller who
\* made the creating request, and its message id differs from the id of
\* every other published message.
C26_EventHeaders ==
    \A m \in topic :
        /\ m.application_properties.eventType = "UserCreated"
        /\ m.application_properties.version = "1.0.0"
        /\ m.application_properties.requestorId = rident[m.id].user_name
        /\ \A n \in topic : n # m => n.message_id # m.message_id

\* C27: whenever a create-user request ends with an error response, that
\* request has durably committed no user row, so a retry of the same request
\* is never answered with a conflict caused by its own earlier attempt.
C27_ErrorMeansNotCommitted ==
    \A r \in Requests :
        (rpc[r] = "done" /\ rstatus[r] >= 400) => UserRow(r) \notin users

\* C28: the role in the identity get_current_user returns, the one
\* require_role decides on, is always the role claim of the token: the store
\* is asked only whether the email exists and the stored role is never
\* compared, so a token with role ADMIN passes the ADMIN gate whatever role
\* the users row holds by then.
C28_GateUsesTokenRole ==
    \A r \in Requests :
        rident[r] # NoIdent =>
            /\ rident[r] = Ident(rtoken[r].sub, rtoken[r].role)
            /\ \E u \in users : u.email = rtoken[r].sub
            /\ rpc[r] # "gate" => (rran[r] <=> rtoken[r].role = RequiredRole)

C28_Witness ==
    \E r \in Requests :
        /\ rran[r] /\ rstatus[r] = 201
        /\ rtoken[r].role = RequiredRole
        /\ \E u \in users : u.email = rtoken[r].sub /\ u.role = "CUSTOMER"

\* C29: when IN_AZURE holds, _get_engine fails before it creates an engine
\* and leaves the memoized engine unset, so every call in that process ends
\* in the exception and none returns an engine; an engine is created only
\* when the environment is local or testing.
C29_AzureNeverCreates ==
    /\ inAzure =>
           /\ engine = NoEngine /\ created = 0 /\ returned = {}
           /\ \A t \in Threads :
                  /\ tpc[t] \notin {"store", "return"}
                  /\ tpc[t] = "idle" => traised[t] = tcalls[t]
    /\ created > 0 => ~inAzure

C29_Witness ==
    /\ inAzure
    /\ \A t \in Threads : tpc[t] = "idle" /\ tcalls[t] = MaxCalls /\ traised[t] = MaxCalls

====
